---- MODULE Spec2Model ----
(***************************************************************************)
(* A model of npipe_windows.go: named-pipe Listen / Accept / Close,        *)
(* Dial / DialTimeout, and overlapped Read / Write with deadlines.         *)
(*                                                                         *)
(* Three scenarios share the module's variables:                           *)
(*   Spec      listeners, concurrent Accept calls, Listener.Close          *)
(*   SpecIO    one connection: Read / Write, deadlines, the clock          *)
(*   SpecClose one connection: Read / Write and PipeConn.Close             *)
(*   SpecDial  Dial / DialTimeout against a changing pipe namespace        *)
(*   SpecCalls one Accept thread on a listener, or Read / Write on a       *)
(*             connection: the calls that create an event                  *)
(* Each scenario leaves the variables of the others at their initial value.*)
(***************************************************************************)
EXTENDS Integers, Sequences, FiniteSets, TLC

\* ------------------------------------------------------------- bounds
MaxHandles == 3
MaxListeners == 2
MaxAcceptors == 2
MaxConns == 2

\* the empty handle slot: "if handle == 0", "l.handle = 0"
NoHandle == 0

\* the clock stops at MaxClock; the peer writes at most MaxBytes bytes
MaxClock == 4
MaxBytes == 2
\* PipeConn.Close is called at most MaxCloses times
MaxCloses == 2
\* the clock's resolution: ticks in a millisecond (time.Millisecond)
TicksPerMs == 2

\* a nil deadline pointer
NoDeadline == -1
\* syscall.INFINITE, the all-ones wait argument
INFINITE == -1

\* the backoff between dial attempts, in milliseconds
Retry == 100
\* the wait WaitNamedPipe uses for a timeout argument of 0: the default of
\* an instance created with defaultTimeout 0
DefaultWaitMs == 50
\* ticks a runnable thread may be kept from running
Jitter == 1

Dirs == {"r", "w"}
\* a thread that is in neither Read nor Write
IdleThread == [pc |-> "idle", dir |-> "r", dl |-> NoDeadline, mills |-> 0, start |-> 0,
               ov |-> "none", n |-> 0, st |-> "", res |-> "none", tmo |-> FALSE,
               ev |-> "none", cxl |-> FALSE]

Handles == 1..MaxHandles
ListenerIds == 1..MaxListeners
Acceptors == 1..MaxAcceptors
\* two well-formed pipe names and one the OS rejects as an invalid name
GoodAddrs == {"p", "q"}
BadAddr == "bad"
NoAddr == ""

VARIABLES
    \* ---- the OS pipe namespace (server side)
    osInst,      \* handle -> [addr, st]: the pipe instance behind a server handle
    hnext,       \* the next handle value the OS hands out
    \* ---- PipeListener objects
    lst,         \* listener id -> [made, addr, handle, closed]
    closing,     \* listener id -> position of the thread running Close
    \* ---- threads running _acceptPipe
    acc,         \* acceptor -> [pc, l, h, mills, ov, res]
    \* ---- PipeConn objects returned by Accept
    conns,       \* sequence of [handle, addr, l]
    \* ---- the clock, in ticks (TicksPerMs ticks make a millisecond)
    clk,
    \* ---- one PipeConn and the pipe behind it
    conn,        \* [handle, readDeadline, writeDeadline]
    hOpen,       \* whether the OS handle conn.handle names is open
    inbuf,       \* bytes the peer has written that no read has taken yet
    outfree,     \* whether the pipe's buffer has room for a write
    peerOpen,    \* whether the peer's end is open
    io,          \* the thread calling Read ("r") or Write ("w") on the connection
    written,     \* bytes the peer has written so far
    delivered,   \* bytes Read calls have returned so far
    closes,      \* CloseHandle calls PipeConn.Close has issued on conn.handle
    \* ---- one thread in Dial or DialTimeout, and the pipe name it dials
    srv,         \* the name's instances: "none", "free" (one is free), "busy"
    dl,          \* the dialing thread
    lag,         \* ticks the dialing thread has been runnable without running
    everExisted  \* whether an instance of the name has existed during the dial

listenVars == <<osInst, hnext, lst, closing, acc, conns>>
ioVars == <<clk, conn, hOpen, inbuf, outfree, peerOpen, io, written, delivered, closes>>
ioRest == <<conn, hOpen, inbuf, outfree, peerOpen, io, written, delivered, closes>>
dialVars == <<srv, dl, lag, everExisted>>
vars == <<listenVars, ioVars, dialVars>>

\* ------------------------------------------------------------ OS model

\* An instance record of a handle the OS has not handed out
FreeInst == [addr |-> NoAddr, st |-> "unalloc"]

\* The instances of a pipe name that exist (created and not closed)
InstancesOf(a) ==
    {h \in Handles : osInst[h].addr = a /\ osInst[h].st \notin {"unalloc", "closed"}}

\* createNamedPipe's error, "" for success.  With FILE_FLAG_FIRST_PIPE_INSTANCE
\* the call fails when an instance of the name exists already.
createPipeErr(address, first) ==
    IF address = BadAddr THEN "ERROR_INVALID_NAME"
    ELSE IF first /\ InstancesOf(address) # {} THEN "ERROR_ACCESS_DENIED"
    ELSE ""

\* the namespace after a successful createPipe: a new instance, listening
createPipeInst(address) ==
    [osInst EXCEPT ![hnext] = [addr |-> address, st |-> "listening"]]

\* ConnectNamedPipe's immediate result on an instance
connectNamedPipeErr(h) ==
    CASE osInst[h].st = "connected" -> "ERROR_PIPE_CONNECTED"
      [] osInst[h].st \in {"listening", "disconnected"} -> "ERROR_IO_PENDING"
      [] OTHER -> "ERROR_INVALID_HANDLE"

\* DisconnectNamedPipe: the instance drops its client and stays open
disconnectNamedPipe(h) ==
    IF osInst[h].st \in {"listening", "connected", "disconnected"}
    THEN [osInst EXCEPT ![h].st = "disconnected"]
    ELSE osInst

\* newOverlapped: createEvent gives a new, open event
newOverlapped == "open"

\* a CloseHandle on the event that is never issued
CloseEventSkipped(ev) == ev

\* syscall.CloseHandle(overlapped.HEvent)
CloseEvent(ev) ==
    IF ev = "open" THEN "closed" ELSE IF ev = "closed" THEN "closedTwice" ELSE ev

\* ------------------------------------------------------------ initial state

IdleAcc == [pc |-> "idle", l |-> 0, h |-> NoHandle, mills |-> 0,
            ov |-> "none", res |-> "none", ev |-> "none", cxl |-> FALSE]
NoListener == [made |-> FALSE, addr |-> NoAddr, handle |-> NoHandle, closed |-> FALSE,
               err |-> ""]

\* the scenario's idle values for the connection's variables
IdleIO ==
    /\ clk = 0
    /\ conn = [handle |-> NoHandle, readDeadline |-> NoDeadline,
               writeDeadline |-> NoDeadline]
    /\ hOpen = FALSE
    /\ inbuf = 0
    /\ outfree = TRUE
    /\ peerOpen = FALSE
    /\ io = IdleThread
    /\ written = 0
    /\ delivered = 0
    /\ closes = 0

\* a thread that is not dialing
NoResult == [type |-> "none", code |-> ""]
IdleDial == [pc |-> "done", mode |-> "", addr |-> NoAddr, timeout |-> 0, deadline |-> 0,
             now |-> 0, millis |-> 0, since |-> 0, wakeAt |-> 0, tries |-> 0,
             res |-> NoResult, retAt |-> 0]

NoDial ==
    /\ srv = "none"
    /\ dl = IdleDial
    /\ lag = 0
    /\ everExisted = FALSE

InitListen ==
    /\ IdleIO
    /\ NoDial
    /\ osInst = [h \in Handles |-> FreeInst]
    /\ hnext = 1
    /\ lst = [l \in ListenerIds |-> NoListener]
    /\ closing = [l \in ListenerIds |-> "idle"]
    /\ acc = [a \in Acceptors |-> IdleAcc]
    /\ conns = <<>>

\* ------------------------------------------------------------ Listen

\* badAddr(address): a PipeError, timeout flag false
badAddr == "PipeError:badAddr"

\* Listen(address) filling listener slot l.  Listen calls createPipe(address,
\* false): the first-instance flag is not passed.
Listen(l, a) ==
    /\ ~lst[l].made
    /\ hnext <= MaxHandles
    /\ LET e == createPipeErr(a, FALSE) IN
         IF e = "ERROR_INVALID_NAME"
         THEN /\ lst' = [lst EXCEPT ![l].addr = a, ![l].err = badAddr]
              /\ UNCHANGED <<osInst, hnext>>
         ELSE IF e # ""
         THEN /\ lst' = [lst EXCEPT ![l].addr = a, ![l].err = e]
              /\ UNCHANGED <<osInst, hnext>>
         ELSE /\ osInst' = createPipeInst(a)
              /\ hnext' = hnext + 1
              /\ lst' = [lst EXCEPT ![l] = [made |-> TRUE, addr |-> a, handle |-> hnext,
                                            closed |-> FALSE, err |-> ""]]
    /\ UNCHANGED <<closing, acc, conns>>
    /\ UNCHANGED <<ioVars, dialVars>>

\* ------------------------------------------------------------ _acceptPipe

\* the PipeConn that _acceptPipe returns
NewConn(a) == [handle |-> acc[a].h, addr |-> lst[acc[a].l].addr, l |-> acc[a].l]

\* the deferred function of _acceptPipe, registered once the event exists: it
\* runs on every return from there on, whatever the outcome, issues CancelIoEx
\* (overlapped.HEvent != 0 holds for every event created) and closes the event
AcceptDeferred(r) ==
    IF r.ev = "none" THEN r ELSE [r EXCEPT !.ev = CloseEvent(r.ev), !.cxl = TRUE]

\* return from _acceptPipe with an error, ev being the call's event
AcceptReturnErr(a, ev, e) ==
    acc' = [acc EXCEPT ![a] = AcceptDeferred([IdleAcc EXCEPT !.res = e, !.ev = ev])]

\* return from _acceptPipe with a PipeConn, ev being the call's event
AcceptReturnConn(a, ev) ==
    /\ conns' = Append(conns, NewConn(a))
    /\ acc' = [acc EXCEPT ![a] = AcceptDeferred([IdleAcc EXCEPT !.res = "conn", !.ev = ev])]

\* entry of _acceptPipe(mills) on listener l: the closed check
AcceptCheck(a, l, m) ==
    /\ acc[a].pc = "idle"
    /\ lst[l].made
    /\ Len(conns) < MaxConns
    /\ IF lst[l].addr = NoAddr \/ lst[l].closed
       THEN AcceptReturnErr(a, "none", "EINVAL")
       ELSE acc' = [acc EXCEPT ![a] = [pc |-> "handle", l |-> l, h |-> NoHandle,
                                       mills |-> m, ov |-> "none", res |-> "none",
                                       ev |-> "none", cxl |-> FALSE]]
    /\ UNCHANGED <<osInst, hnext, lst, closing, conns>>
    /\ UNCHANGED <<ioVars, dialVars>>

\* handle := l.handle; a new instance is created only when the slot is empty.
\* The slot is left as it is.
AcceptHandle(a) ==
    /\ acc[a].pc = "handle"
    /\ LET l == acc[a].l IN
       IF lst[l].handle = NoHandle
       THEN /\ hnext <= MaxHandles
            /\ LET e == createPipeErr(lst[l].addr, FALSE) IN
               IF e # ""
               THEN /\ AcceptReturnErr(a, "none", e)
                    /\ UNCHANGED <<osInst, hnext>>
               ELSE /\ osInst' = createPipeInst(lst[l].addr)
                    /\ hnext' = hnext + 1
                    /\ acc' = [acc EXCEPT ![a].pc = "connect", ![a].h = hnext]
       ELSE /\ acc' = [acc EXCEPT ![a].pc = "connect", ![a].h = lst[l].handle]
            /\ UNCHANGED <<osInst, hnext>>
    /\ UNCHANGED <<lst, closing, conns>>
    /\ UNCHANGED <<ioVars, dialVars>>

\* newOverlapped, then connectNamedPipe(handle, overlapped)
AcceptConnect(a) ==
    /\ acc[a].pc = "connect"
    /\ LET e == connectNamedPipeErr(acc[a].h) IN
       IF e = "ERROR_PIPE_CONNECTED"
       THEN /\ AcceptReturnConn(a, newOverlapped)
            /\ UNCHANGED osInst
       ELSE IF e = "ERROR_IO_PENDING"
       THEN /\ osInst' = [osInst EXCEPT ![acc[a].h].st = "listening"]
            /\ acc' = [acc EXCEPT ![a].pc = "wait", ![a].ov = "pending",
                                   ![a].ev = newOverlapped]
            /\ UNCHANGED conns
       ELSE /\ AcceptReturnErr(a, newOverlapped, e)
            /\ UNCHANGED <<osInst, conns>>
    /\ UNCHANGED <<hnext, lst, closing>>
    /\ UNCHANGED <<ioVars, dialVars>>

\* waitForCompletion returns WAIT_OBJECT_0 and getOverlappedResult the outcome
AcceptComplete(a) ==
    /\ acc[a].pc = "wait"
    /\ acc[a].ov \in {"done_ok", "done_err"}
    /\ IF acc[a].ov = "done_ok"
       THEN AcceptReturnConn(a, acc[a].ev)
       ELSE AcceptReturnErr(a, acc[a].ev, "ERROR_PIPE_NOT_CONNECTED") /\ UNCHANGED conns
    /\ UNCHANGED <<osInst, hnext, lst, closing>>
    /\ UNCHANGED <<ioVars, dialVars>>

\* waitForCompletion returns WAIT_TIMEOUT: only a non-zero mills bounds the wait
AcceptTimeout(a) ==
    /\ acc[a].pc = "wait"
    /\ acc[a].ov = "pending"
    /\ acc[a].mills # 0
    /\ AcceptReturnErr(a, acc[a].ev, "PipeError:timeout")
    /\ UNCHANGED <<osInst, hnext, lst, closing, conns>>
    /\ UNCHANGED <<ioVars, dialVars>>

\* ------------------------------------------------------------ PipeListener.Close

\* if l.closed { return nil }; l.closed = true
CloseMark(l) ==
    /\ lst[l].made
    /\ closing[l] = "idle"
    /\ IF lst[l].closed
       THEN UNCHANGED <<lst, closing>>
       ELSE /\ lst' = [lst EXCEPT ![l].closed = TRUE]
            /\ closing' = [closing EXCEPT ![l] = "marked"]
    /\ UNCHANGED <<osInst, hnext, acc, conns>>
    /\ UNCHANGED <<ioVars, dialVars>>

\* if l.handle != 0 { disconnectNamedPipe(l.handle); l.handle = 0 }
\* The disconnect fails the connect requests pending on the instance; the
\* handle itself is not closed.
CloseRelease(l) ==
    /\ closing[l] = "marked"
    /\ closing' = [closing EXCEPT ![l] = "idle"]
    /\ IF lst[l].handle # NoHandle
       THEN /\ osInst' = disconnectNamedPipe(lst[l].handle)
            /\ acc' = [a \in Acceptors |->
                         IF acc[a].pc = "wait" /\ acc[a].ov = "pending"
                            /\ acc[a].h = lst[l].handle
                         THEN [acc[a] EXCEPT !.ov = "done_err"] ELSE acc[a]]
            /\ lst' = [lst EXCEPT ![l].handle = NoHandle]
       ELSE UNCHANGED <<osInst, acc, lst>>
    /\ UNCHANGED <<hnext, conns>>
    /\ UNCHANGED <<ioVars, dialVars>>

\* ------------------------------------------------------------ clients

\* A client opens the pipe name and lands on a listening instance; the connect
\* requests pending on that instance complete.
ClientConnect(h) ==
    /\ osInst[h].st = "listening"
    /\ osInst' = [osInst EXCEPT ![h].st = "connected"]
    /\ acc' = [a \in Acceptors |->
                 IF acc[a].pc = "wait" /\ acc[a].ov = "pending" /\ acc[a].h = h
                 THEN [acc[a] EXCEPT !.ov = "done_ok"] ELSE acc[a]]
    /\ UNCHANGED <<hnext, lst, closing, conns>>
    /\ UNCHANGED <<ioVars, dialVars>>

\* the wait budgets Accept (0) and AcceptTimeout (non-zero) pass
AcceptMills == {0, 1}

Next ==
    \/ \E l \in ListenerIds, a \in GoodAddrs \cup {BadAddr} : Listen(l, a)
    \/ \E a \in Acceptors, l \in ListenerIds, m \in AcceptMills : AcceptCheck(a, l, m)
    \/ \E a \in Acceptors : AcceptHandle(a)
    \/ \E a \in Acceptors : AcceptConnect(a)
    \/ \E a \in Acceptors : AcceptComplete(a)
    \/ \E a \in Acceptors : AcceptTimeout(a)
    \/ \E l \in ListenerIds : CloseMark(l)
    \/ \E l \in ListenerIds : CloseRelease(l)
    \/ \E h \in Handles : ClientConnect(h)

Spec == InitListen /\ [][Next]_vars

\* ------------------------------------------------------------ claims: listener

\* the listeners on address a whose Close has not returned yet
OpenOn(a) ==
    {l \in ListenerIds : lst[l].made /\ lst[l].addr = a
                          /\ ~(lst[l].closed /\ closing[l] = "idle")}

\* the handles wrapped by the Connections Accept has returned
ConnHandles == {conns[i].handle : i \in 1..Len(conns)}

\* the handles an Accept call in flight is working on
AcceptHandles == {acc[a].h : a \in {b \in Acceptors : acc[b].pc \in {"connect", "wait"}}}

\* C1: Listen claims the pipe name exclusively.  A Listen succeeds on an
\* address only when no Listener on that address is still open, and a Listen on
\* a well-formed address fails only when one is.
C1_ListenExclusive ==
    [][\A l \in ListenerIds :
          /\ (~lst[l].made /\ lst'[l].made) => OpenOn(lst'[l].addr) = {}
          /\ (~lst[l].made /\ ~lst'[l].made /\ lst'[l].err # lst[l].err
                /\ lst'[l].addr \in GoodAddrs) => OpenOn(lst'[l].addr) # {}]_vars

\* C2: once an Accept has returned a Connection the Listener's handle slot is
\* empty, and no Accept in flight works on a handle a Connection already wraps
\* (a later Accept creates its own instance).
C2_PendingHandleConsumed ==
    /\ \A i \in 1..Len(conns) : lst[conns[i].l].handle = NoHandle
    /\ AcceptHandles \cap ConnHandles = {}

\* C3: no two Connections returned by Accept wrap the same handle, no two
\* Accept calls in flight work on the same handle, and no handle is at once in
\* a Listener's pending slot and wrapped by a Connection.
C3_AcceptsIndependent ==
    /\ \A i, j \in 1..Len(conns) : i # j => conns[i].handle # conns[j].handle
    /\ \A a, b \in Acceptors :
          (a # b /\ acc[a].pc \in {"connect", "wait"} /\ acc[b].pc \in {"connect", "wait"})
             => acc[a].h # acc[b].h
    /\ \A l \in ListenerIds :
          (lst[l].made /\ lst[l].handle # NoHandle) => lst[l].handle \notin ConnHandles

\* C4: once closed is set no Accept succeeds: no step taken while the
\* Listener's closed flag is set returns a Connection from that Listener or
\* creates a pipe instance for an Accept on it.
C4_NoAcceptAfterClosed ==
    [][/\ Len(conns') > Len(conns) => ~lst[conns'[Len(conns')].l].closed
       /\ \A a \in Acceptors :
             (acc[a].pc = "handle" /\ acc'[a].pc = "connect" /\ acc'[a].h = hnext
              /\ hnext' = hnext + 1) => ~lst[acc[a].l].closed]_vars

\* C5: Listener.Close leaves accepted Connections alone: the step in which
\* Close disconnects changes the pipe instance of no handle that a returned
\* Connection wraps, so those Connections stay connected.
C5_CloseLeavesConns ==
    [][\A l \in ListenerIds :
          (closing[l] = "marked" /\ closing'[l] = "idle")
             => \A h \in ConnHandles : osInst'[h] = osInst[h]]_vars

\* C6: the first Close on a Listener still holding its unused first-instance
\* handle disconnects and releases that instance (the handle is closed) and
\* empties the slot; a Close on a closed Listener changes nothing of it.
C6_CloseIdempotentReleases ==
    [][\A l \in ListenerIds :
          /\ (closing[l] = "marked" /\ closing'[l] = "idle" /\ lst[l].handle # NoHandle
                /\ lst[l].handle \notin ConnHandles \cup AcceptHandles)
               => (osInst'[lst[l].handle].st = "closed" /\ lst'[l].handle = NoHandle)
          /\ (lst[l].closed /\ closing[l] = "idle")
               => (lst'[l] = lst[l] /\ closing'[l] = closing[l])]_vars

\* ============================================================ the connection

IdleListen ==
    /\ osInst = [h \in Handles |-> FreeInst]
    /\ hnext = 1
    /\ lst = [l \in ListenerIds |-> NoListener]
    /\ closing = [l \in ListenerIds |-> "idle"]
    /\ acc = [a \in Acceptors |-> IdleAcc]
    /\ conns = <<>>

\* an established PipeConn, as dial or _acceptPipe return it: no deadlines
InitIO ==
    /\ IdleListen
    /\ NoDial
    /\ clk = 0
    /\ conn = [handle |-> 1, readDeadline |-> NoDeadline, writeDeadline |-> NoDeadline]
    /\ hOpen = TRUE
    /\ inbuf = 0
    /\ outfree = TRUE
    /\ peerOpen = TRUE
    /\ io = IdleThread
    /\ written = 0
    /\ delivered = 0
    /\ closes = 0

RECURSIVE Sprintf(_)
\* fmt.Sprintf("%d", v) for v >= 0: the decimal digits, most significant first
Sprintf(v) == IF v < 10 THEN <<v>> ELSE Append(Sprintf(v \div 10), v % 10)

RECURSIVE Atoi(_)
\* strconv.Atoi of a digit string
Atoi(ds) == IF ds = <<>> THEN 0 ELSE 10 * Atoi(SubSeq(ds, 1, Len(ds) - 1)) + ds[Len(ds)]

\* completeRequest's wait budget: mills stays 0 unless the deadline is set and
\* ahead of now, and is then the whole milliseconds that remain
completeRequestMills(deadline, nowt) ==
    IF deadline # NoDeadline /\ deadline - nowt > 0
    THEN Atoi(Sprintf((deadline - nowt) \div TicksPerMs))
    ELSE 0

\* waitForCompletion's argument to WaitForSingleObject: mills == 0 waits forever
WaitArg(mills) == IF mills = 0 THEN INFINITE ELSE mills

\* the tick at which a wait begun at start gives up (WAIT_TIMEOUT)
WaitExpiry(start, mills) == start + WaitArg(mills) * TicksPerMs

\* ReadFile / WriteFile on the connection's handle: the immediate error
IssueErr(d) ==
    IF ~hOpen THEN "ERROR_INVALID_HANDLE"
    ELSE IF d = "r"
    THEN (IF inbuf > 0 THEN ""
          ELSE IF ~peerOpen THEN "ERROR_BROKEN_PIPE" ELSE "ERROR_IO_PENDING")
    ELSE (IF ~peerOpen THEN "ERROR_NO_DATA"
          ELSE IF outfree THEN "" ELSE "ERROR_IO_PENDING")

\* a completeRequest that hands every status back as it is
ResultOfRaw(st) == IF st = "" THEN "ok" ELSE st

\* completeRequest's translation of the final status into the returned error
ResultOf(st) ==
    IF st = "" THEN "ok" ELSE IF st = "ERROR_BROKEN_PIPE" THEN "EOF" ELSE st

\* CancelIoEx on a request: a request still pending is cancelled, a request
\* that has completed keeps its outcome
CancelIoEx(ov) == IF ov = "pending" THEN "cancelled" ELSE ov

\* Read (d = "r") or Write (d = "w") up to the wait: newOverlapped, ReadFile /
\* WriteFile, and completeRequest's first half; the deferred CloseHandle of the
\* event runs when the call returns
IoSubmit(d) ==
    /\ io.pc = "idle"
    /\ LET e == IssueErr(d)
           deadline == IF d = "r" THEN conn.readDeadline ELSE conn.writeDeadline
           n == IF e # "" THEN 0 ELSE IF d = "r" THEN inbuf ELSE 1
       IN IF e = "ERROR_IO_PENDING"
          THEN /\ io' = [pc |-> "wait", dir |-> d, dl |-> deadline,
                         mills |-> completeRequestMills(deadline, clk), start |-> clk,
                         ov |-> "pending", n |-> 0, st |-> "", res |-> "none",
                         tmo |-> io.tmo, ev |-> newOverlapped, cxl |-> FALSE]
               /\ UNCHANGED <<inbuf, delivered, outfree>>
          ELSE /\ io' = [IdleThread EXCEPT !.dir = d, !.n = n, !.res = ResultOf(e),
                                           !.tmo = io.tmo,
                                           !.ev = CloseEvent(newOverlapped)]
               /\ inbuf' = IF d = "r" THEN inbuf - n ELSE inbuf
               /\ delivered' = IF d = "r" THEN delivered + n ELSE delivered
               /\ IF d = "w" /\ e = "" THEN outfree' \in BOOLEAN ELSE UNCHANGED outfree
    /\ UNCHANGED <<clk, conn, hOpen, peerOpen, written>>
    /\ UNCHANGED <<listenVars, dialVars, closes>>

\* waitForCompletion: the event is signalled, getOverlappedResult gives the
\* count and the status, completeRequest returns them
IoWaitDone ==
    /\ io.pc = "wait"
    /\ io.ov = "done"
    /\ io' = [IdleThread EXCEPT !.dir = io.dir, !.n = io.n, !.res = ResultOf(io.st),
                                !.tmo = io.tmo, !.ev = CloseEvent(io.ev)]
    /\ delivered' = IF io.dir = "r" THEN delivered + io.n ELSE delivered
    /\ UNCHANGED <<clk, conn, hOpen, inbuf, outfree, peerOpen, written>>
    /\ UNCHANGED <<listenVars, dialVars, closes>>

\* waitForCompletion: WaitForSingleObject gives up (WAIT_TIMEOUT) and a
\* PipeError with the timeout flag comes back to completeRequest
IoWaitTimeout ==
    /\ io.pc = "wait"
    /\ io.ov = "pending"
    /\ WaitArg(io.mills) # INFINITE
    /\ clk >= WaitExpiry(io.start, io.mills)
    /\ io' = [io EXCEPT !.pc = "cancel"]
    /\ UNCHANGED <<clk, conn, hOpen, inbuf, outfree, peerOpen, written, delivered>>
    /\ UNCHANGED <<listenVars, dialVars, closes>>

\* completeRequest after the timeout: CancelIoEx(c.handle, overlapped), then
\* return (0, timeout error)
IoCancel ==
    /\ io.pc = "cancel"
    /\ io' = [IdleThread EXCEPT !.dir = io.dir, !.res = "PipeError:timeout",
                                !.ov = CancelIoEx(io.ov),
                                !.tmo = (io.tmo \/ io.dir = "r"),
                                !.ev = CloseEvent(io.ev), !.cxl = TRUE]
    /\ UNCHANGED <<clk, conn, hOpen, inbuf, outfree, peerOpen, written, delivered>>
    /\ UNCHANGED <<listenVars, dialVars, closes>>

\* the deadlines a caller may pass: any tick of the clock
DeadlineTimes == 0..MaxClock

\* a SetReadDeadline that moves the write deadline as well
SetReadDeadlineBoth(t) ==
    /\ conn' = [conn EXCEPT !.readDeadline = t, !.writeDeadline = t]
    /\ UNCHANGED <<clk, hOpen, inbuf, outfree, peerOpen, io, written, delivered>>
    /\ UNCHANGED <<listenVars, dialVars, closes>>

SetReadDeadline(t) ==
    /\ conn' = [conn EXCEPT !.readDeadline = t]
    /\ UNCHANGED <<clk, hOpen, inbuf, outfree, peerOpen, io, written, delivered>>
    /\ UNCHANGED <<listenVars, dialVars, closes>>

SetWriteDeadline(t) ==
    /\ conn' = [conn EXCEPT !.writeDeadline = t]
    /\ UNCHANGED <<clk, hOpen, inbuf, outfree, peerOpen, io, written, delivered>>
    /\ UNCHANGED <<listenVars, dialVars, closes>>

\* SetDeadline calls SetReadDeadline and SetWriteDeadline
SetDeadline(t) ==
    /\ conn' = [conn EXCEPT !.readDeadline = t, !.writeDeadline = t]
    /\ UNCHANGED <<clk, hOpen, inbuf, outfree, peerOpen, io, written, delivered>>
    /\ UNCHANGED <<listenVars, dialVars, closes>>

\* PipeConn.Close: syscall.CloseHandle(c.handle), on every call; c.handle keeps
\* its value.  Closing an open handle aborts the request pending on it.
ConnClose ==
    /\ closes < MaxCloses
    /\ closes' = closes + 1
    /\ hOpen' = FALSE
    /\ io' = IF hOpen /\ io.ov = "pending"
             THEN [io EXCEPT !.ov = "done", !.st = "ERROR_OPERATION_ABORTED"]
             ELSE io
    /\ UNCHANGED <<clk, conn, inbuf, outfree, peerOpen, written, delivered>>
    /\ UNCHANGED <<listenVars, dialVars>>

\* ------------------------------------------------------------ the peer, the clock

\* the OS hands the value of a closed handle out again: it now names another
\* open object of the process, here another pipe end with nothing to read yet
HandleReuse ==
    /\ closes > 0
    /\ ~hOpen
    /\ hOpen' = TRUE
    /\ peerOpen' = TRUE
    /\ inbuf' = 0
    /\ outfree' = TRUE
    /\ UNCHANGED <<clk, conn, io, written, delivered, closes>>
    /\ UNCHANGED <<listenVars, dialVars>>

\* the peer writes k bytes: a pending read takes them, else they stay in the pipe
PeerWrite(k) ==
    /\ peerOpen /\ hOpen
    /\ written + k <= MaxBytes
    /\ written' = written + k
    /\ IF io.dir = "r" /\ io.ov = "pending"
       THEN /\ io' = [io EXCEPT !.ov = "done", !.n = k]
            /\ UNCHANGED inbuf
       ELSE /\ inbuf' = inbuf + k
            /\ UNCHANGED io
    /\ UNCHANGED <<clk, conn, hOpen, outfree, peerOpen, delivered>>
    /\ UNCHANGED <<listenVars, dialVars, closes>>

\* the peer reads: the pipe has room again and a pending write completes
PeerRead ==
    /\ peerOpen /\ hOpen
    /\ ~outfree
    /\ IF io.dir = "w" /\ io.ov = "pending"
       THEN /\ io' = [io EXCEPT !.ov = "done", !.n = 1]
            /\ UNCHANGED outfree
       ELSE /\ outfree' = TRUE
            /\ UNCHANGED io
    /\ UNCHANGED <<clk, conn, hOpen, inbuf, peerOpen, written, delivered>>
    /\ UNCHANGED <<listenVars, dialVars, closes>>

\* the peer closes its end: pending requests complete with the closed status
PeerClose ==
    /\ peerOpen
    /\ peerOpen' = FALSE
    /\ io' = IF io.ov = "pending"
             THEN [io EXCEPT !.ov = "done",
                     !.st = IF io.dir = "r" THEN "ERROR_BROKEN_PIPE" ELSE "ERROR_NO_DATA"]
             ELSE io
    /\ UNCHANGED <<clk, conn, hOpen, inbuf, outfree, written, delivered>>
    /\ UNCHANGED <<listenVars, dialVars, closes>>

Tick ==
    /\ clk < MaxClock
    /\ clk' = clk + 1
    /\ UNCHANGED <<conn, hOpen, inbuf, outfree, peerOpen, io, written, delivered>>
    /\ UNCHANGED <<listenVars, dialVars, closes>>

NextIO ==
    \/ \E d \in Dirs : IoSubmit(d)
    \/ IoWaitDone
    \/ IoWaitTimeout
    \/ IoCancel
    \/ \E t \in DeadlineTimes : SetReadDeadline(t)
    \/ \E t \in DeadlineTimes : SetWriteDeadline(t)
    \/ \E t \in DeadlineTimes : SetDeadline(t)
    \/ \E k \in 1..MaxBytes : PeerWrite(k)
    \/ PeerRead
    \/ PeerClose
    \/ Tick

SpecIO == InitIO /\ [][NextIO]_vars

\* the connection with Close calls among the Reads and Writes: no deadlines,
\* the clock stands still
NextClose ==
    \/ \E d \in Dirs : IoSubmit(d)
    \/ IoWaitDone
    \/ ConnClose
    \/ HandleReuse
    \/ \E k \in 1..MaxBytes : PeerWrite(k)
    \/ PeerRead
    \/ PeerClose

SpecClose == InitIO /\ [][NextClose]_vars

\* ------------------------------------------------------------ claims: Read / Write

\* C7: a Read or Write that waits with a deadline set never waits forever: its
\* wait argument is not INFINITE and its wait gives up no later than the
\* deadline (at once when the deadline is now, past, or under a millisecond
\* ahead).
C7_DeadlineNeverInfinite ==
    (io.pc = "wait" /\ io.dl # NoDeadline)
        => /\ WaitArg(io.mills) # INFINITE
           /\ WaitExpiry(io.start, io.mills) <= IF io.dl > io.start THEN io.dl ELSE io.start

\* C8: a Read timeout leaves the Connection usable and loses no data.  The step
\* that returns the Timeout leaves the handle and both deadlines as they were
\* and no request behind, and every byte the peer has written so far is either
\* already returned by a Read or still in the pipe for the next Read; bytes
\* that arrive after it stay in the pipe; the next Read returns the bytes that
\* are there, or, when it waits, the bytes that arrive.
C8_ReadTimeoutKeepsConn ==
    [][/\ (io.pc = "cancel" /\ io'.pc = "idle")
            => (conn' = conn /\ hOpen' = hOpen /\ io'.res = "PipeError:timeout"
                /\ io'.n = 0 /\ io'.ov # "pending"
                /\ (io.dir = "r" => written' = delivered' + inbuf'))
       /\ (io.pc = "idle" /\ io.tmo /\ written' > written)
            => inbuf' = inbuf + (written' - written)
       /\ (io.pc = "idle" /\ io.tmo /\ inbuf > 0 /\ io' # io /\ io'.dir = "r")
            => (io'.pc = "idle" /\ io'.res = "ok" /\ io'.n = inbuf
                /\ delivered' = delivered + inbuf)
       /\ (io.pc = "wait" /\ io.tmo /\ io.dir = "r" /\ io.ov = "pending"
            /\ written' > written)
            => (io'.ov = "done" /\ io'.n = written' - written /\ io'.st = "")
       /\ (io.pc = "wait" /\ io.tmo /\ io.dir = "r" /\ io.ov = "done" /\ io.st = ""
            /\ io'.pc = "idle")
            => (io'.res = "ok" /\ io'.n = io.n /\ delivered' = delivered + io.n)]_vars

\* ============================================================ Dial / DialTimeout

RetryTicks == Retry * TicksPerMs
\* the timeouts DialTimeout is called with, in ticks: negative, zero, under a
\* millisecond, a few milliseconds, just over one backoff
DialTimeouts == {-1, 0, 1, 2 * TicksPerMs + 1, RetryTicks + TicksPerMs}
\* the clock runs past every deadline and its slack
DialClockEnd == RetryTicks + TicksPerMs + 8 * Jitter

Errno(c) == [type |-> "Errno", code |-> c]
PipeError(c) == [type |-> "PipeError", code |-> c]

InitDial ==
    /\ IdleListen
    /\ clk = 0
    /\ conn = [handle |-> NoHandle, readDeadline |-> NoDeadline,
               writeDeadline |-> NoDeadline]
    /\ hOpen = FALSE
    /\ inbuf = 0
    /\ outfree = TRUE
    /\ peerOpen = FALSE
    /\ io = IdleThread
    /\ written = 0
    /\ delivered = 0
    /\ closes = 0
    /\ srv \in {"none", "free", "busy"}
    /\ everExisted = (srv # "none")
    /\ lag = 0
    /\ \E m \in {"Dial", "DialTimeout"}, a \in {"p", BadAddr}, t \in DialTimeouts :
          /\ m = "Dial" => t = 0
          /\ dl = [IdleDial EXCEPT !.pc = "start", !.mode = m, !.addr = a, !.timeout = t]

\* an isPipeNotReady that takes every error for a transient one
isPipeNotReadyAlways(err) == TRUE

\* isPipeNotReady: a *os.PathError counts when it wraps error_pipe_busy, any
\* other error only when it is ERROR_FILE_NOT_FOUND
isPipeNotReady(err) ==
    IF err.type = "PathError" THEN err.code = "ERROR_PIPE_BUSY"
    ELSE err = Errno("ERROR_FILE_NOT_FOUND")

\* the ticks WaitNamedPipe waits for a busy pipe: 0 is the default wait,
\* nmpwait_wait_forever waits forever
WaitNamedPipeTicks(timeout) ==
    IF timeout = INFINITE THEN INFINITE
    ELSE IF timeout = 0 THEN DefaultWaitMs * TicksPerMs
    ELSE timeout * TicksPerMs

\* DialTimeout's backoff always sleeping the whole retry interval
SleepForWhole(left) == RetryTicks

\* DialTimeout's backoff: the retry interval, or what is left less a millisecond
SleepFor(left) == IF left > RetryTicks THEN RetryTicks ELSE left - TicksPerMs

\* <-time.After(d) begun now: a duration of zero or less fires at once
WakeAt(d) == IF d > 0 THEN clk + d ELSE clk

\* the thread on return from Dial / DialTimeout with result r
DialReturned(d, r) == [d EXCEPT !.pc = "done", !.res = r, !.retAt = clk]

\* error handling that does not single out WaitNamedPipe's timeout
DialFailedNoSemTimeout(d, e) ==
    IF isPipeNotReady(e)
    THEN [d EXCEPT !.pc = "sleep",
                   !.wakeAt = WakeAt(IF d.mode = "Dial" THEN RetryTicks
                                     ELSE SleepFor(d.deadline - clk))]
    ELSE DialReturned(d, e)

\* the thread after a dial attempt failed with e: Dial and DialTimeout sleep
\* and retry when isPipeNotReady(e), DialTimeout turns WaitNamedPipe's timeout
\* into the Timeout error, and every other error is returned
DialFailed(d, e) ==
    IF d.mode = "Dial"
    THEN IF isPipeNotReady(e)
         THEN [d EXCEPT !.pc = "sleep", !.wakeAt = WakeAt(RetryTicks)]
         ELSE DialReturned(d, e)
    ELSE IF e = Errno("error_sem_timeout")
         THEN DialReturned(d, PipeError("timeout"))
         ELSE IF isPipeNotReady(e)
         THEN [d EXCEPT !.pc = "sleep", !.wakeAt = WakeAt(SleepFor(d.deadline - clk))]
         ELSE DialReturned(d, e)

\* DialTimeout: deadline := time.Now().Add(timeout); now := time.Now().
\* Dial: the first dial(address, nmpwait_wait_forever).
DialStart ==
    /\ dl.pc = "start"
    /\ IF dl.mode = "DialTimeout"
       THEN dl' = [dl EXCEPT !.pc = "loop", !.deadline = clk + dl.timeout, !.now = clk]
       ELSE dl' = [dl EXCEPT !.pc = "wait", !.millis = INFINITE]
    /\ lag' = 0
    /\ UNCHANGED <<clk, srv, everExisted>>
    /\ UNCHANGED <<listenVars, ioRest>>

\* for now.Before(deadline) { millis := uint32(deadline.Sub(now) / time.Millisecond)
\* ... }; after the loop the Timeout error
DialLoop ==
    /\ dl.pc = "loop"
    /\ IF dl.now < dl.deadline
       THEN dl' = [dl EXCEPT !.pc = "wait",
                             !.millis = (dl.deadline - dl.now) \div TicksPerMs]
       ELSE dl' = DialReturned(dl, PipeError("timeout"))
    /\ lag' = 0
    /\ UNCHANGED <<clk, srv, everExisted>>
    /\ UNCHANGED <<listenVars, ioRest>>

\* dial: waitNamedPipe(name, timeout) up to the point where it blocks.  It
\* returns at once when no instance of the name exists; for a malformed name
\* it fails with error_bad_pathname, which dial turns into badAddr(address).
DialWait ==
    /\ dl.pc = "wait"
    /\ LET d == [dl EXCEPT !.tries = IF dl.tries < 2 THEN dl.tries + 1 ELSE 2] IN
       dl' = IF dl.addr = BadAddr THEN DialFailed(d, PipeError("badAddr"))
             ELSE IF srv = "none" THEN DialFailed(d, Errno("ERROR_FILE_NOT_FOUND"))
             ELSE IF srv = "free" THEN [d EXCEPT !.pc = "open"]
             ELSE [d EXCEPT !.pc = "blocked", !.since = clk]
    /\ lag' = 0
    /\ UNCHANGED <<clk, srv, everExisted>>
    /\ UNCHANGED <<listenVars, ioRest>>

\* whether the wait of a blocked waitNamedPipe has run out
WaitExpired ==
    /\ WaitNamedPipeTicks(dl.millis) # INFINITE
    /\ clk >= dl.since + WaitNamedPipeTicks(dl.millis)

\* waitNamedPipe returns: an instance has become free
DialWaitFree ==
    /\ dl.pc = "blocked"
    /\ srv = "free"
    /\ dl' = [dl EXCEPT !.pc = "open", !.since = 0]
    /\ lag' = 0
    /\ UNCHANGED <<clk, srv, everExisted>>
    /\ UNCHANGED <<listenVars, ioRest>>

\* waitNamedPipe returns error_sem_timeout: no instance became free in time
DialWaitTimeout ==
    /\ dl.pc = "blocked"
    /\ srv # "free"
    /\ WaitExpired
    /\ dl' = DialFailed([dl EXCEPT !.since = 0], Errno("error_sem_timeout"))
    /\ lag' = 0
    /\ UNCHANGED <<clk, srv, everExisted>>
    /\ UNCHANGED <<listenVars, ioRest>>

\* dial: syscall.CreateFile on the pipe name.  Its errors come back as they
\* are (syscall.Errno).
DialOpen ==
    /\ dl.pc = "open"
    /\ IF srv = "free"
       THEN /\ dl' = DialReturned(dl, [type |-> "conn", code |-> ""])
            /\ srv' = "busy"
       ELSE /\ dl' = DialFailed(dl, Errno(IF srv = "busy" THEN "ERROR_PIPE_BUSY"
                                          ELSE "ERROR_FILE_NOT_FOUND"))
            /\ UNCHANGED srv
    /\ lag' = 0
    /\ UNCHANGED <<clk, everExisted>>
    /\ UNCHANGED <<listenVars, ioRest>>

\* the backoff sleep ends; DialTimeout reads the clock again (now = time.Now())
DialWake ==
    /\ dl.pc = "sleep"
    /\ clk >= dl.wakeAt
    /\ IF dl.mode = "DialTimeout"
       THEN dl' = [dl EXCEPT !.pc = "loop", !.now = clk, !.wakeAt = 0]
       ELSE dl' = [dl EXCEPT !.pc = "wait", !.wakeAt = 0]
    /\ lag' = 0
    /\ UNCHANGED <<clk, srv, everExisted>>
    /\ UNCHANGED <<listenVars, ioRest>>

\* ------------------------------------------------------------ the pipe name, the clock

\* servers and other clients change the name's instances while the thread dials
SrvChange(to) ==
    /\ dl.pc # "done"
    /\ to # srv
    /\ srv' = to
    /\ everExisted' = TRUE
    /\ UNCHANGED <<clk, dl, lag>>
    /\ UNCHANGED <<listenVars, ioRest>>

\* whether the dialing thread has a step to take
DialRunnable ==
    \/ dl.pc \in {"start", "loop", "wait", "open"}
    \/ dl.pc = "sleep" /\ clk >= dl.wakeAt
    \/ dl.pc = "blocked" /\ (srv = "free" \/ WaitExpired)

\* the clock advances; a runnable thread is kept waiting at most Jitter ticks
DialTick ==
    /\ dl.pc # "done"
    /\ clk < DialClockEnd
    /\ DialRunnable => lag < Jitter
    /\ clk' = clk + 1
    /\ lag' = IF DialRunnable THEN lag + 1 ELSE 0
    /\ UNCHANGED <<srv, dl, everExisted>>
    /\ UNCHANGED <<listenVars, ioRest>>

NextDial ==
    \/ DialStart
    \/ DialLoop
    \/ DialWait
    \/ DialWaitFree
    \/ DialWaitTimeout
    \/ DialOpen
    \/ DialWake
    \/ \E to \in {"none", "free", "busy"} : SrvChange(to)
    \/ DialTick

SpecDial == InitDial /\ [][NextDial]_vars

\* ------------------------------------------------------------ claims: dialing

\* C9: transient dial conditions are absorbed: Dial and DialTimeout never
\* return "server busy" or "pipe not yet created" to the caller.
C9_TransientAbsorbed ==
    dl.pc = "done"
        => dl.res.code \notin {"ERROR_PIPE_BUSY", "ERROR_FILE_NOT_FOUND"}

\* the slack the claim allows DialTimeout past its deadline
DialSlack == 4 * Jitter

\* C10: DialTimeout on a well-formed address of which no instance ever exists
\* returns the Timeout error, no later than its deadline plus the slack; it
\* begins an attempt only when the time it read is before the deadline, and no
\* backoff sleep lasts past the deadline.
C10_DialTimeoutNoListener ==
    (dl.mode = "DialTimeout" /\ dl.addr # BadAddr /\ ~everExisted /\ dl.pc # "start")
        => /\ dl.pc = "done" => (dl.res = PipeError("timeout")
                                  /\ dl.retAt <= dl.deadline + DialSlack)
           /\ dl.pc # "done" => clk <= dl.deadline + DialSlack
           /\ dl.pc \in {"wait", "blocked", "open", "sleep"} => dl.now < dl.deadline
           /\ (dl.pc = "sleep" /\ clk < dl.wakeAt) => dl.wakeAt <= dl.deadline

\* a DialTimeout of more than one backoff that found no instance, retried and
\* returned the Timeout error once its deadline had passed
C10_Witness ==
    /\ dl.mode = "DialTimeout" /\ dl.addr # BadAddr /\ ~everExisted
    /\ dl.pc = "done" /\ dl.res = PipeError("timeout")
    /\ dl.timeout > RetryTicks /\ dl.tries = 2
    /\ dl.retAt >= dl.deadline

\* C11: Dial on a well-formed address never gives up: whatever "not found" and
\* "busy" outcomes its attempts meet, it returns only with a Connection.
C11_DialNeverGivesUp ==
    (dl.mode = "Dial" /\ dl.addr # BadAddr /\ dl.pc = "done") => dl.res.type = "conn"

C18_BudgetsWithinDeadline ==
    [][dl.mode = "DialTimeout"
         => /\ (dl.pc = "loop" /\ dl'.pc = "wait")
                 => /\ dl'.millis \notin {0, INFINITE}
                    /\ WaitNamedPipeTicks(dl'.millis) <= dl.deadline - dl.now
            /\ (dl.pc # "sleep" /\ dl'.pc = "sleep")
                 => LET left == dl.deadline - clk
                        d == SleepFor(left)
                    IN /\ d >= 0 /\ d <= RetryTicks /\ d <= left
                       /\ dl'.wakeAt <= dl.deadline]_vars

\* C19: when waitNamedPipe itself times out the dial returns the Timeout error
\* at once: the step that ends a blocked wait without a free instance returns
\* a PipeError with the timeout flag, and no sleep or further attempt follows.
C19_WaitTimeoutIsFinal ==
    [][(dl.pc = "blocked" /\ dl'.pc \notin {"blocked", "open"})
          => (dl'.pc = "done" /\ dl'.res = PipeError("timeout"))]_vars

\* a DialTimeout against a busy pipe that returned the Timeout error before
\* its deadline: only waitNamedPipe's own timeout ends it that early
C19_Witness ==
    /\ dl.mode = "DialTimeout" /\ dl.pc = "done" /\ dl.res = PipeError("timeout")
    /\ everExisted /\ dl.tries >= 1 /\ dl.retAt < dl.deadline

\* ------------------------------------------------------------ claims: PipeConn.Close

\* C13: however often Close is called on a Connection, CloseHandle is issued on
\* its handle at most once.
C13_CloseHandleOnce == closes <= 1

\* C14: a Read or Write begun after Close returns at once with the error of a
\* closed Connection: it does not wait, returns no bytes and takes none out of
\* whatever the handle value names by then.
C14_NoIoAfterClose ==
    [][(closes > 0 /\ io.pc = "idle" /\ io' # io)
          => /\ io'.pc = "idle"
             /\ io'.res \in {"InvalidState", "ERROR_INVALID_HANDLE"}
             /\ io'.n = 0
             /\ delivered' = delivered /\ inbuf' = inbuf]_vars

\* ------------------------------------------------------------ claims: results, deadlines

\* C15: Read and Write return EOF exactly when the request's status is
\* ERROR_BROKEN_PIPE (the remote end is closed), be the status reported when
\* the request is submitted or after the wait; a call that times out never
\* returns EOF.
C15_EofIffBrokenPipe ==
    [][/\ (io.pc = "idle" /\ io'.pc = "idle" /\ io' # io)
            => (io'.res = "EOF" <=> IssueErr(io'.dir) = "ERROR_BROKEN_PIPE")
       /\ (io.pc = "wait" /\ io'.pc = "idle")
            => (io'.res = "EOF" <=> io.st = "ERROR_BROKEN_PIPE")
       /\ (io.pc = "cancel" /\ io'.pc = "idle") => io'.res # "EOF"]_vars

\* a Read that returned EOF after the peer closed its end, every byte the peer
\* wrote having been read before
C15_Witness ==
    /\ io.pc = "idle" /\ io.dir = "r" /\ io.res = "EOF" /\ io.n = 0
    /\ ~peerOpen /\ written > 0 /\ delivered = written

C17_CancelOnlyOnTimeout ==
    [][/\ \A a \in Acceptors :
            (acc[a].pc # "idle" /\ acc'[a].pc = "idle")
               => /\ acc'[a].res = "PipeError:timeout"
                       => (acc'[a].cxl /\ osInst' = osInst)
                  /\ acc'[a].res = "conn" => ~acc'[a].cxl
       /\ (io' # io /\ io'.pc = "idle")
            => /\ io'.res = "PipeError:timeout" => (io'.cxl /\ hOpen' = hOpen)
               /\ io'.res = "ok" => ~io'.cxl]_vars

\* ------------------------------------------------------------ claims: events

\* one thread accepting on one listener
NextAcceptOne ==
    \/ \E a \in GoodAddrs \cup {BadAddr} : Listen(1, a)
    \/ \E m \in AcceptMills : AcceptCheck(1, 1, m)
    \/ AcceptHandle(1)
    \/ AcceptConnect(1)
    \/ AcceptComplete(1)
    \/ AcceptTimeout(1)
    \/ CloseMark(1)
    \/ CloseRelease(1)
    \/ \E h \in Handles : ClientConnect(h)

\* the calls that create an event: Accept on a listener, or Read and Write on
\* a connection
InitCalls == InitListen \/ InitIO

NextCalls ==
    \/ conn.handle = NoHandle /\ NextAcceptOne
    \/ conn.handle # NoHandle /\ NextIO

SpecCalls == InitCalls /\ [][NextCalls]_vars

\* C20: the event of a request is closed exactly once on every way out of
\* Read, Write and Accept: a call that waits holds its event open, a call
\* that has returned has closed the event it created, once.
C20_EventsReleasedOnce ==
    /\ io.pc \in {"wait", "cancel"} => io.ev = "open"
    /\ io.pc = "idle" => io.ev = (IF io.res = "none" THEN "none" ELSE "closed")
    /\ \A a \in Acceptors :
          /\ acc[a].pc \in {"handle", "connect"} => acc[a].ev = "none"
          /\ acc[a].pc = "wait" => acc[a].ev = "open"
          /\ acc[a].pc = "idle"
               => acc[a].ev = (IF acc[a].res \in {"none", "EINVAL"} THEN "none" ELSE "closed")

\* a Read that timed out, cancelled its request and closed its event
C20_Witness ==
    /\ io.pc = "idle" /\ io.res = "PipeError:timeout" /\ io.cxl /\ io.ev = "closed"

====
